---- MODULE Spec2Model ----
(***************************************************************************)
(* Model of create_gcp_vm_instance.py: class AcquireGpu.                   *)
(*                                                                         *)
(* One run of allocate_gpus: scan_zones walks the provider's zone list;    *)
(* per zone it calls is_gpu_available, then attempt_gpu_allocation, which  *)
(* calls is_machine_available, create_single_vm, start_vm_instance and     *)
(* get_vm_external_ip; allocate_gpus then deletes surplus allocations.     *)
(* Every provider call is a nondeterministic draw of the provider's        *)
(* answer (a value or a raised exception).                                 *)
(*                                                                         *)
(* Strings the code splits are sequences of their pieces: a zone name is   *)
(* the sequence of its "-"-separated segments, an exception message is a   *)
(* sequence of tokens in which ":" is the colon.  A status (gpu_reason) is *)
(* a sequence of tokens as well.                                           *)
(***************************************************************************)
EXTENDS Integers, Sequences, FiniteSets, TLC

\* ---------------------------------------------------------------- bounds
MaxZones == 2      \* longest zone list the provider returns
MaxShapes == 1     \* longest configured machine_types list of a whole run
MaxCandidates == 3 \* longest machine_types list of a machine check alone
MaxQuotas == 2     \* longest region_info.quotas list
MaxTick == 0       \* last clock reading of a run, in ticks after its start
MaxTrace == 3      \* longest trace handed to allocate_gpus directly
MaxInstant == 7    \* last clock reading of a sequence of runs, in ticks
MaxRuns == 3       \* most runs of a sequence of runs

\* ------------------------------------------------------------- constants
TicksPerSec == 2   \* clock ticks per second; line 205 keeps whole seconds
vm_name == "gpu-vm"
gpu_type == "nvidia-tesla-t4"
gpu_quota_name == "NVIDIA_T4_GPUS"
\* the configured machine_types lists: m1, m2, ... in preference order
ShapeAt(i) == "m" \o ToString(i)
ShapeLists == {[i \in 1..n |-> ShapeAt(i)] : n \in 0..MaxShapes}

SUCCESS == <<"SUCCESS">>
UNAVAILABLE == <<"UNAVAILABLE">>
\* Python's None, for a string, for a name and for a status
None == "None"
NoName == <<>>

\* ------------------------------------------------------------- utilities
SeqsUpTo(S, n) == UNION {[1..k -> S] : k \in 0..n}
Range(s) == {s[i] : i \in 1..Len(s)}
Last(s) == s[Len(s)]

\* ------------------------------------------------------ provider answers
\* the provider's zone list: zones 1,2 lie in region us-1, zones 3,4 in
\* us-2, ...
ZoneAt(i) == <<"us", ToString((i + 1) \div 2), IF i % 2 = 1 THEN "a" ELSE "b">>
ZoneLists == {[i \in 1..n |-> ZoneAt(i)] : n \in 0..MaxZones}

AccelLists == SeqsUpTo({gpu_type, "nvidia-l4"}, 2)

QuotaRecords ==
    {[metric |-> m, usage |-> u, limit |-> 1] :
        m \in {gpu_quota_name, "CPUS"}, u \in {0, 1}}
    \cup {[metric |-> "SSD_TOTAL_GB", usage |-> 0, limit |-> 1]}
\* a quota snapshot lists each metric once
QuotaLists ==
    {q \in SeqsUpTo(QuotaRecords, MaxQuotas) :
        \A i, j \in 1..Len(q) : i # j => q[i].metric # q[j].metric}

\* an answer of a provider call: raised, or the value returned
Raised == [raised |-> TRUE, value |-> <<>>]
Returned(v) == [raised |-> FALSE, value |-> v]
Answers(S) == {Raised} \cup {Returned(v) : v \in S}

\* exception messages of a failed create
Messages ==
    { <<"QUOTA_EXCEEDED", ":", "Quota exceeded">>,
      <<"Timeout">>,
      <<"SUCCESS", ":", "but not really">> }
\* the answers of a create: done, or raised with a message
CreateAnswers ==
    {Returned(<<>>)} \cup {[raised |-> TRUE, value |-> m] : m \in Messages}

\* instance descriptors returned by get: network interfaces, each a list of
\* access configs
AccessConfigs ==
    { [name |-> "External NAT", nat_i_p |-> "10.0.0.1"],
      [name |-> "Internal", nat_i_p |-> "10.0.0.2"] }
InstanceDescs == SeqsUpTo(SeqsUpTo(AccessConfigs, 1), 2)

\* -------------------------------------------------------- pure functions
\* "-".join(zone_name.split("-")[:-1])
Region(zone_name) == SubSeq(zone_name, 1, Len(zone_name) - 1)

\* any(gpu.name == self.gpu_type for gpu in gpu_response)
GpuExists(gpu_response) == \E i \in 1..Len(gpu_response) : gpu_response[i] = gpu_type

\* mutant of GpuQuotaLoop: a snapshot without the configured metric counts
\* as within quota
RECURSIVE GpuQuotaLoopMissingOk(_, _)
GpuQuotaLoopMissingOk(quotas, i) ==
    IF i > Len(quotas) THEN TRUE
    ELSE IF quotas[i].metric = gpu_quota_name
         THEN quotas[i].usage < quotas[i].limit
         ELSE GpuQuotaLoopMissingOk(quotas, i + 1)

\* the loop over region_info.quotas in is_gpu_available: the first entry of
\* the configured metric decides; no such entry is False
RECURSIVE GpuQuotaLoop(_, _)
GpuQuotaLoop(quotas, i) ==
    IF i > Len(quotas) THEN FALSE
    ELSE IF quotas[i].metric = gpu_quota_name
         THEN quotas[i].usage < quotas[i].limit
         ELSE GpuQuotaLoop(quotas, i + 1)

\* the loop over region_info.quotas in is_machine_available: TRUE when it
\* returns machine_type, FALSE when it falls through
RECURSIVE CpuQuotaLoop(_, _)
CpuQuotaLoop(quotas, i) ==
    IF i > Len(quotas) THEN FALSE
    ELSE IF quotas[i].metric = "CPUS" /\ quotas[i].usage < quotas[i].limit
         THEN TRUE
         ELSE CpuQuotaLoop(quotas, i + 1)

\* index of the first ":" token of a message, Len + 1 when there is none
RECURSIVE FirstColon(_, _)
FirstColon(msg, i) ==
    IF i > Len(msg) THEN i
    ELSE IF msg[i] = ":" THEN i ELSE FirstColon(msg, i + 1)

\* mutant of StatusOf: the message is not split
StatusOfWhole(msg) == msg

\* str(e).split(":")[:1][0]
StatusOf(msg) == SubSeq(msg, 1, FirstColon(msg, 1) - 1)

\* the two nested loops of get_vm_external_ip over an instance descriptor
RECURSIVE ExternalIpLoop(_, _, _)
ExternalIpLoop(desc, i, j) ==
    IF i > Len(desc) THEN None
    ELSE IF j > Len(desc[i]) THEN ExternalIpLoop(desc, i + 1, 1)
    ELSE IF desc[i][j].name = "External NAT" THEN desc[i][j].nat_i_p
    ELSE ExternalIpLoop(desc, i, j + 1)

\* [vm for vm in scanned_zones if vm["gpu_allocated"] is True]
AllocatedVms(trace) == SelectSeq(trace, LAMBDA vm : vm.gpu_allocated = TRUE)

\* allocated_vms[1:] if len(allocated_vms) > 1 else []
VmsToDelete(allocated) == IF Len(allocated) > 1 THEN Tail(allocated) ELSE <<>>

\* f"{self.vm_name}-{current_timestamp}", the timestamp cut to the second
InstanceName(t) == <<vm_name, t \div TicksPerSec>>

\* ----------------------------------------------------------------- state
VARIABLES
    pc,             \* position of the run
    machine_types,  \* self.machine_types
    zones,          \* scan_zones: zones
    zi,             \* scan_zones: position of the for loop in zones
    scanned_zones,  \* scan_zones: scanned_zones (the trace)
    gpu_available,  \* scan_zones: gpu_available
    mi,             \* is_machine_available: position of its for loop
    found_gpu,      \* attempt_gpu_allocation: found_gpu
    machine_type,   \* attempt_gpu_allocation: machine_type
    instance_name,  \* attempt_gpu_allocation: instance_name
    gpu_allocated,  \* attempt_gpu_allocation: gpu_allocated
    gpu_reason,     \* attempt_gpu_allocation: gpu_reason
    external_ip,    \* attempt_gpu_allocation: external_ip
    allocated_vms,  \* allocate_gpus: the list it returns
    now,            \* the clock, in ticks
    instances,      \* the provider's instances created by this run
    calls,          \* history: the provider calls issued, in order
    hist            \* history: per visited zone, what the provider answered

locals == <<gpu_available, mi, found_gpu, machine_type, instance_name,
            gpu_allocated, gpu_reason, external_ip>>
vars == <<pc, machine_types, zones, zi, scanned_zones, locals, allocated_vms,
          now, instances, calls, hist>>

Terminal == {"returned", "exit1", "crashed"}

\* a provider call as logged in calls
Call(op, zone, name, shape) == [op |-> op, zone |-> zone, name |-> name, shape |-> shape]

\* an instance of the provider
Instance(zone, name, started) == [zone |-> zone, name |-> name, started |-> started]
Exists(zone, name) == \E s \in BOOLEAN : Instance(zone, name, s) \in instances

\* what the provider answered in a zone, before any call
NoFacts ==
    [accel |-> "none", quota |-> "none", first_ok |-> 0,
     create |-> "none", msg |-> <<>>, start |-> "none", getip |-> "none"]

\* whether the catalog answer lists the configured accelerator
AccelFact(accel) ==
    IF accel.raised THEN "raised"
    ELSE IF gpu_type \in Range(accel.value) THEN "present" ELSE "absent"

\* what the region snapshot says of the configured accelerator metric
QuotaFact(region) ==
    IF region.raised THEN "raised"
    ELSE IF \A q \in Range(region.value) : q.metric # gpu_quota_name THEN "missing"
    ELSE IF \E q \in Range(region.value) :
                q.metric = gpu_quota_name /\ q.usage < q.limit THEN "ok"
    ELSE "over"

\* whether a shape exists in the zone and its region has CPU headroom
ShapeFact(machine, region) ==
    /\ ~machine.raised
    /\ ~region.raised
    /\ \E q \in Range(region.value) : q.metric = "CPUS" /\ q.usage < q.limit

\* attempt_gpu_allocation, lines 193-198: the locals before any branch
InitLocals ==
    /\ gpu_available = FALSE
    /\ mi = 1
    /\ found_gpu = FALSE
    /\ machine_type = None
    /\ instance_name = NoName
    /\ gpu_allocated = FALSE
    /\ gpu_reason = UNAVAILABLE
    /\ external_ip = None

Init ==
    /\ pc = "begin"
    /\ machine_types \in ShapeLists
    /\ zones = <<>>
    /\ zi = 1
    /\ scanned_zones = <<>>
    /\ InitLocals
    /\ allocated_vms = <<>>
    /\ now = 0
    /\ instances = {}
    /\ calls = <<>>
    /\ hist = <<>>

\* ------------------------------------------------------------- scan_zones
\* scan_zones, lines 240-245: the zone list is read once; the call is not
\* guarded, so a raise leaves the run
ListZones ==
    /\ pc = "begin"
    /\ calls' = Append(calls, Call("list_zones", <<>>, NoName, None))
    /\ \E answer \in Answers(ZoneLists) :
          IF answer.raised
          THEN pc' = "crashed" /\ zones' = zones
          ELSE pc' = "zone" /\ zones' = answer.value
    /\ UNCHANGED <<machine_types, zi, scanned_zones, locals, allocated_vms,
                   now, instances, hist>>

\* mutant of IsGpuAvailable: a raise of either probe counts as available
IsGpuAvailableFailOpen(accel, region) ==
    IF accel.raised THEN TRUE
    ELSE IF ~GpuExists(accel.value) THEN FALSE
    ELSE IF region.raised THEN TRUE
    ELSE GpuQuotaLoop(region.value, 1)

\* is_gpu_available, lines 103-129: what it returns for the two answers
IsGpuAvailable(accel, region) ==
    IF accel.raised THEN FALSE                   \* except: return False
    ELSE IF ~GpuExists(accel.value) THEN FALSE   \* if not gpu_exists
    ELSE IF region.raised THEN FALSE             \* except: return False
    ELSE GpuQuotaLoop(region.value, 1)

\* mutant of IsGpuAvailableCalls: the quota is read whenever the catalog
\* was listed, the accelerator present or not
IsGpuAvailableCallsNoShortCut(zone_name, accel) ==
    <<Call("list_accelerator_types", zone_name, NoName, None)>>
    \o IF ~accel.raised
       THEN <<Call("get_region", Region(zone_name), NoName, None)>>
       ELSE <<>>

\* is_gpu_available: the provider calls it issues for the catalog answer
IsGpuAvailableCalls(zone_name, accel) ==
    <<Call("list_accelerator_types", zone_name, NoName, None)>>
    \o IF ~accel.raised /\ GpuExists(accel.value)
       THEN <<Call("get_region", Region(zone_name), NoName, None)>>
       ELSE <<>>

\* mutant of AfterGpuCheck: the machine check runs whatever gpu_available
AfterGpuCheckUnguarded(available, n) ==
    IF n > 0 THEN "machine" ELSE "record"

\* attempt_gpu_allocation, lines 200-204: where the attempt goes once
\* gpu_available is known (an empty machine_types list finds no machine)
AfterGpuCheck(available, n) ==
    IF available /\ n > 0 THEN "machine" ELSE "record"

\* scan_zones, lines 248-253: the loop takes the next zone and checks the
\* accelerator.  first_ok is drawn here: the position in machine_types of the
\* first shape that qualifies in this zone during this visit, 0 when none
\* does (the machine check reads answers that agree with it).
CheckGpu ==
    /\ pc = "zone"
    /\ zi <= Len(zones)
    /\ \E accel \in Answers(AccelLists), region \in Answers(QuotaLists) :
          LET zone_name == zones[zi]
              issued == IsGpuAvailableCalls(zone_name, accel)
              available == IsGpuAvailable(accel, region)
              next == AfterGpuCheck(available, Len(machine_types))
          IN  /\ Len(issued) = 1 => region = Raised   \* answer not read
              /\ gpu_available' = available
              /\ calls' = calls \o issued
              /\ pc' = next
              /\ \E first \in IF next = "machine"
                                THEN 0..Len(machine_types) ELSE {0} :
                    hist' = Append(hist,
                        [NoFacts EXCEPT
                            !.accel = AccelFact(accel),
                            !.quota = IF Len(issued) = 1 THEN "none"
                                      ELSE QuotaFact(region),
                            !.first_ok = first])
    /\ UNCHANGED <<machine_types, zones, zi, scanned_zones, mi, found_gpu,
                   machine_type, instance_name, gpu_allocated, gpu_reason,
                   external_ip, allocated_vms, now, instances>>

\* is_machine_available, lines 146-167: one pass of the loop body, TRUE when
\* it returns machine_type
MachineProbe(machine, region) ==
    IF machine.raised THEN FALSE          \* get raised: except, next shape
    ELSE IF region.raised THEN FALSE      \* region get raised: except
    ELSE CpuQuotaLoop(region.value, 1)

\* is_machine_available: the provider calls of one pass
MachineProbeCalls(zone_name, shape, machine) ==
    <<Call("get_machine_type", zone_name, NoName, shape)>>
    \o IF ~machine.raised
       THEN <<Call("get_region", Region(zone_name), NoName, None)>>
       ELSE <<>>

\* mutant of MachineLoop: a shape that does not qualify ends the loop
MachineLoopStopsAtFailure(returned, i, n) ==
    IF returned THEN "return_shape" ELSE "return_none"

\* is_machine_available, lines 145-169: what the loop does after the pass
\* over shape i of n
MachineLoop(returned, i, n) ==
    IF returned THEN "return_shape"
    ELSE IF i < n THEN "next"
    ELSE "return_none"

\* is_machine_available, one pass of its loop (called at line 201), and
\* line 202 when the loop ends
CheckMachine ==
    /\ pc = "machine"
    /\ \E machine \in Answers({"descriptor"}), region \in Answers(QuotaLists) :
          LET zone_name == zones[zi]
              shape == machine_types[mi]
              issued == MachineProbeCalls(zone_name, shape, machine)
              step == MachineLoop(MachineProbe(machine, region), mi,
                                  Len(machine_types))
          IN  /\ Len(issued) = 1 => region = Raised   \* answer not read
              /\ mi < hist[zi].first_ok => ~ShapeFact(machine, region)
              /\ mi = hist[zi].first_ok => ShapeFact(machine, region)
              /\ hist[zi].first_ok = 0 => ~ShapeFact(machine, region)
              /\ calls' = calls \o issued
              /\ mi' = IF step = "next" THEN mi + 1 ELSE mi
              /\ machine_type' = IF step = "return_shape" THEN shape ELSE None
              /\ found_gpu' = (step = "return_shape")
              /\ pc' = CASE step = "return_shape" -> "create"
                         [] step = "next" -> "machine"
                         [] step = "return_none" -> "record"
    /\ UNCHANGED <<machine_types, zones, zi, scanned_zones, gpu_available,
                   instance_name, gpu_allocated, gpu_reason, external_ip,
                   allocated_vms, now, instances, hist>>

\* create_single_vm, lines 72-88: the status of vm_dict["gpu_reason"]
CreateStatus(answer) ==
    IF answer.raised THEN StatusOf(answer.value) ELSE SUCCESS

\* attempt_gpu_allocation, line 209: whether start is tried
StartIsTried(status) == status = SUCCESS

\* attempt_gpu_allocation, lines 205-209 and 215, with create_single_vm and
\* create_vm_request: the clock is read, the name derived, the insert sent
\* and awaited.  A create that raises may have left the instance behind (the
\* wait of line 341 or the get of line 343 raised after the insert).
CreateVm ==
    /\ pc = "create"
    /\ \E t \in now..MaxTick, answer \in CreateAnswers, left \in BOOLEAN :
          LET zone_name == zones[zi]
              name == InstanceName(t)
              exists == ~answer.raised \/ left
              status == CreateStatus(answer)
          IN  /\ ~answer.raised => left
              /\ now' = t
              /\ instance_name' = name
              /\ calls' = Append(calls, Call("insert", zone_name, name, machine_type))
              /\ instances' = IF exists
                               THEN instances \cup {Instance(zone_name, name, FALSE)}
                               ELSE instances
              /\ hist' = [hist EXCEPT ![zi].create =
                                IF answer.raised THEN "raised" ELSE "ok",
                                       ![zi].msg = answer.value]
              /\ gpu_reason' = IF StartIsTried(status) THEN gpu_reason ELSE status
              /\ pc' = IF StartIsTried(status) THEN "start" ELSE "record"
    /\ UNCHANGED <<machine_types, zones, zi, scanned_zones, gpu_available, mi,
                   found_gpu, machine_type, gpu_allocated, external_ip,
                   allocated_vms>>

\* start_vm_instance, lines 356-366: the name when started, None otherwise
StartVmInstance(name, raised) == IF raised THEN NoName ELSE name

\* attempt_gpu_allocation, lines 210-212, with start_vm_instance.  A start of
\* an instance that does not exist raises.
StartVm ==
    /\ pc = "start"
    /\ \E raised \in BOOLEAN :
          LET zone_name == zones[zi]
              vm_instance == StartVmInstance(instance_name, raised)
          IN  /\ ~Exists(zone_name, instance_name) => raised
              /\ calls' = Append(calls, Call("start", zone_name, instance_name, None))
              /\ instances' =
                    IF raised THEN instances
                    ELSE (instances \ {Instance(zone_name, instance_name, FALSE)})
                         \cup {Instance(zone_name, instance_name, TRUE)}
              /\ hist' = [hist EXCEPT ![zi].start =
                                IF raised THEN "raised" ELSE "ok"]
              /\ gpu_allocated' = (vm_instance # NoName)
              /\ gpu_reason' = SUCCESS
              /\ pc' = "getip"
    /\ UNCHANGED <<machine_types, zones, zi, scanned_zones, gpu_available, mi,
                   found_gpu, machine_type, instance_name, external_ip,
                   allocated_vms, now>>

\* attempt_gpu_allocation, line 213, with get_vm_external_ip (lines 450-456):
\* the get is not guarded, so a raise leaves the run.  A get of an instance
\* that does not exist raises.
GetVmExternalIp ==
    /\ pc = "getip"
    /\ \E answer \in Answers(InstanceDescs) :
          LET zone_name == zones[zi]
          IN  /\ ~Exists(zone_name, instance_name) => answer.raised
              /\ calls' = Append(calls,
                            Call("get_instance", zone_name, instance_name, None))
              /\ hist' = [hist EXCEPT ![zi].getip =
                                IF answer.raised THEN "raised" ELSE "ok"]
              /\ IF answer.raised
                 THEN pc' = "crashed" /\ external_ip' = external_ip
                 ELSE /\ pc' = "record"
                      /\ external_ip' = ExternalIpLoop(answer.value, 1, 1)
    /\ UNCHANGED <<machine_types, zones, zi, scanned_zones, gpu_available, mi,
                   found_gpu, machine_type, instance_name, gpu_allocated,
                   gpu_reason, allocated_vms, now, instances>>

\* attempt_gpu_allocation, lines 217-230: the record of the zone
ZoneResults(zone_name) ==
    [region |-> Region(zone_name),
     zone |-> zone_name,
     instance_name |-> instance_name,
     gpu_type |-> gpu_type,
     machine_type |-> machine_type,
     is_available |-> found_gpu,
     gpu_allocated |-> gpu_allocated,
     gpu_reason |-> gpu_reason,
     external_ip |-> external_ip]

\* mutant of ScanStops: the scan goes on after an allocation
ScanNeverStops(allocated) == FALSE

\* scan_zones, lines 262-264: whether the scan returns after this record
ScanStops(allocated) == allocated

\* attempt_gpu_allocation returns (lines 217-230) and scan_zones appends the
\* record and returns or goes on (lines 256-268); the locals of the attempt
\* are given up
\* mutant of NextZone: the loop stays on the zone it just recorded
NextZoneAgain(i) == i

\* scan_zones, line 247: the for loop moves on to the following zone
NextZone(i) == i + 1

AppendRecord ==
    /\ pc = "record"
    /\ scanned_zones' = Append(scanned_zones, ZoneResults(zones[zi]))
    /\ IF ScanStops(gpu_allocated)
       THEN pc' = "scanned" /\ zi' = zi
       ELSE pc' = "zone" /\ zi' = NextZone(zi)
    /\ gpu_available' = FALSE
    /\ mi' = 1
    /\ found_gpu' = FALSE
    /\ machine_type' = None
    /\ instance_name' = NoName
    /\ gpu_allocated' = FALSE
    /\ gpu_reason' = UNAVAILABLE
    /\ external_ip' = None
    /\ UNCHANGED <<machine_types, zones, allocated_vms, now, instances, calls,
                   hist>>

\* scan_zones, lines 270-275: the loop is over
ScanEnd ==
    /\ pc = "zone"
    /\ zi > Len(zones)
    /\ LET allocated_gpu ==
              \E i \in 1..Len(scanned_zones) : scanned_zones[i].gpu_allocated = TRUE
       IN  pc' = IF ~allocated_gpu THEN "exit1" ELSE "scanned"
    /\ UNCHANGED <<machine_types, zones, zi, scanned_zones, locals,
                   allocated_vms, now, instances, calls, hist>>

\* mutant of ReturnedVms: the list of allocations is not handed back
ReturnedVmsNone(allocated) == <<>>

\* allocate_gpus, lines 430-436: the list it returns
ReturnedVms(allocated) == allocated

\* mutant of DeletesIssued: the first delete that raises ends the loop
DeletesIssuedUntilRaise(raised, n) ==
    IF \E i \in 1..n : raised[i]
    THEN CHOOSE i \in 1..n : raised[i] /\ \A j \in 1..(i - 1) : ~raised[j]
    ELSE n

\* delete_vm_instances, lines 390-403: the number of deletes the loop issues
\* for n instances; the try/except is inside the loop body, so a delete
\* that raises does not end the loop
DeletesIssued(raised, n) == n

\* allocate_gpus, lines 421-436, with delete_vm_instances (lines 382-405):
\* each surplus allocation is deleted in turn, a delete that raises is
\* logged and the loop goes on
AllocateGpus ==
    /\ pc = "scanned"
    /\ LET allocated == AllocatedVms(scanned_zones)
           successful_allocation == Len(allocated) > 0
           vms_to_delete == VmsToDelete(allocated)
       IN  /\ \E raised \in [1..Len(vms_to_delete) -> BOOLEAN] :
                 LET issued == DeletesIssued(raised, Len(vms_to_delete))
                 IN  /\ calls' = calls \o
                            [i \in 1..issued |->
                                Call("delete", vms_to_delete[i].zone,
                                     vms_to_delete[i].instance_name, None)]
                     /\ instances' =
                            {vm \in instances :
                                ~\E i \in 1..issued :
                                    /\ ~raised[i]
                                    /\ vm.zone = vms_to_delete[i].zone
                                    /\ vm.name = vms_to_delete[i].instance_name}
           /\ IF successful_allocation
              THEN pc' = "returned" /\ allocated_vms' = ReturnedVms(allocated)
              ELSE pc' = "exit1" /\ allocated_vms' = allocated_vms
    /\ UNCHANGED <<machine_types, zones, zi, scanned_zones, locals, now, hist>>

Next ==
    \/ ListZones
    \/ CheckGpu
    \/ CheckMachine
    \/ CreateVm
    \/ StartVm
    \/ GetVmExternalIp
    \/ AppendRecord
    \/ ScanEnd
    \/ AllocateGpus

Spec == Init /\ [][Next]_vars

\* The run is one sequential thread and every provider call returns or
\* raises (create, start and delete wait at most 300 seconds, lines 341, 362
\* and 399), so a step that can be taken is taken.
SpecFair == Spec /\ WF_vars(Next)

\* ------------------------------------------- allocate_gpus on any trace
\* allocate_gpus reads nothing but the trace scan_zones hands it.  Here the
\* trace is any list of records, as a scan without the early return (or a
\* replaced scan_zones) could hand over, and the instances are those of the
\* records with gpu_allocated.
TraceRecord(i, allocated, reason, ip) ==
    [region |-> Region(ZoneAt(i)),
     zone |-> ZoneAt(i),
     instance_name |-> IF allocated THEN InstanceName(0) ELSE NoName,
     gpu_type |-> gpu_type,
     machine_type |-> IF allocated THEN ShapeAt(1) ELSE None,
     is_available |-> allocated,
     gpu_allocated |-> allocated,
     gpu_reason |-> IF allocated THEN SUCCESS ELSE reason,
     external_ip |-> IF allocated THEN ip ELSE None]

TraceRecords(i) ==
    {TraceRecord(i, TRUE, SUCCESS, ip) : ip \in {"10.0.0.1", None}}
    \cup {TraceRecord(i, FALSE, reason, None) :
            reason \in {UNAVAILABLE, <<"QUOTA_EXCEEDED">>}}

Traces ==
    UNION {{t \in [1..n -> UNION {TraceRecords(i) : i \in 1..n}] :
                \A i \in 1..n : t[i] \in TraceRecords(i)} : n \in 0..MaxTrace}

InitCoord ==
    /\ pc = "scanned"
    /\ machine_types = <<ShapeAt(1)>>
    /\ scanned_zones \in Traces
    /\ zones = [i \in 1..Len(scanned_zones) |-> ZoneAt(i)]
    /\ zi = Len(scanned_zones) + 1
    /\ InitLocals
    /\ allocated_vms = <<>>
    /\ now = 0
    /\ instances =
          {Instance(scanned_zones[i].zone, scanned_zones[i].instance_name, TRUE) :
              i \in {j \in 1..Len(scanned_zones) : scanned_zones[j].gpu_allocated}}
    /\ calls = <<>>
    /\ hist = <<>>

NextCoord == AllocateGpus

SpecCoord == InitCoord /\ [][NextCoord]_vars

\* --------------------------------------- the name derived by successive runs
\* The instance name depends on nothing but vm_name and the clock reading of
\* line 205.  Here one run after the other, with the same answers of the
\* provider and so in the same zone with the same shape, derives its name and
\* passes it to create_single_vm; the clock does not go back between runs.
InitNames ==
    /\ pc = "name"
    /\ machine_types \in
          {[i \in 1..n |-> ShapeAt(i)] : n \in 1..MaxCandidates}
    /\ \E n \in 1..MaxZones :
          /\ zones = [i \in 1..n |-> ZoneAt(i)]
          /\ zi = n
    /\ scanned_zones = <<>>
    /\ gpu_available = TRUE
    /\ mi = Len(machine_types)
    /\ found_gpu = TRUE
    /\ machine_type = machine_types[mi]
    /\ instance_name = NoName
    /\ gpu_allocated = FALSE
    /\ gpu_reason = UNAVAILABLE
    /\ external_ip = None
    /\ allocated_vms = <<>>
    /\ now \in 0..MaxInstant
    /\ instances = {}
    /\ calls = <<>>
    /\ hist = <<>>

\* attempt_gpu_allocation, lines 205-207, in the next run: the clock is read,
\* the name derived and passed to create_single_vm
DeriveName ==
    /\ pc = "name"
    /\ Len(calls) < MaxRuns
    /\ \E t \in now..MaxInstant :
          /\ now' = t
          /\ instance_name' = InstanceName(t)
          /\ calls' = Append(calls,
                  Call("insert", zones[zi], InstanceName(t), machine_type))
    /\ UNCHANGED <<pc, machine_types, zones, zi, scanned_zones, gpu_available,
                   mi, found_gpu, machine_type, gpu_allocated, gpu_reason,
                   external_ip, allocated_vms, instances, hist>>

NextNames == DeriveName

SpecNames == InitNames /\ [][NextNames]_vars

\* ------------------------------------- is_machine_available on any list
\* is_machine_available reads nothing but the zone name and machine_types.
\* Here it is called in any zone, with the accelerator found available, for
\* any non-empty candidate list (attempt_gpu_allocation, line 201).
InitMachine ==
    /\ pc = "machine"
    /\ machine_types \in
          {[i \in 1..n |-> ShapeAt(i)] : n \in 1..MaxCandidates}
    /\ \E n \in 1..MaxZones :
          /\ zones = [i \in 1..n |-> ZoneAt(i)]
          /\ zi = n
          /\ scanned_zones = [i \in 1..(n - 1) |->
                                TraceRecord(i, FALSE, UNAVAILABLE, None)]
          /\ \E first \in 0..Len(machine_types) :
                hist = [i \in 1..n |->
                          IF i < n THEN [NoFacts EXCEPT !.accel = "absent"]
                          ELSE [NoFacts EXCEPT !.accel = "present",
                                               !.quota = "ok",
                                               !.first_ok = first]]
    /\ gpu_available = TRUE
    /\ mi = 1
    /\ found_gpu = FALSE
    /\ machine_type = None
    /\ instance_name = NoName
    /\ gpu_allocated = FALSE
    /\ gpu_reason = UNAVAILABLE
    /\ external_ip = None
    /\ allocated_vms = <<>>
    /\ now = 0
    /\ instances = {}
    /\ calls = <<>>

NextMachine == CheckMachine

SpecMachine == InitMachine /\ [][NextMachine]_vars

\* ---------------------------------------------------------------- claims
\* the instances of this run that were started and not deleted
Running == {vm \in instances : vm.started}

\* the zone list was obtained (the one raise with a single call logged is
\* that of the zone listing)
ZonesListed == pc # "begin" /\ ~(pc = "crashed" /\ Len(calls) = 1)

\* the provider calls that probe or provision in a zone
ZoneOps == {"list_accelerator_types", "get_machine_type", "insert", "start"}

\* the positions in calls of the calls of operation op in zone zone_name
CallsOf(op, zone_name) ==
    {k \in 1..Len(calls) : calls[k].op = op /\ calls[k].zone = zone_name}

\* by the provider's answers, the zone of the i-th visit qualifies: the
\* accelerator is listed and within quota and some candidate shape qualifies
Qualifies(i) ==
    /\ hist[i].accel = "present"
    /\ hist[i].quota = "ok"
    /\ hist[i].first_ok > 0

\* the record of the i-th visit is in the trace
Recorded(i) == i <= Len(scanned_zones)

\* C1: whenever the run ends with failure status, no instance created by
\* the run exists.
C1_NoInstanceAfterFailure == pc = "exit1" => instances = {}

\* C2: whenever allocate_gpus returns, at most one instance of the run is
\* created, started and not deleted.
C2_AtMostOneRunning == pc = "returned" => Cardinality(Running) <= 1

\* C2 witness: allocate_gpus returned after a scan of two zones, one
\* instance running and another one, created and never started, left over.
C2_Witness ==
    /\ pc = "returned"
    /\ Len(scanned_zones) = 2
    /\ Cardinality(Running) = 1
    /\ Cardinality(instances) = 2

\* C3: a record with allocated = true is the last record of the trace and
\* the only allocated one, and no zone after its zone is ever probed or
\* provisioned (no accelerator probe, machine probe, create or start).
C3_ScanHaltsAtFirstSuccess ==
    \A i \in 1..Len(scanned_zones) :
        scanned_zones[i].gpu_allocated =>
            /\ i = Len(scanned_zones)
            /\ \A j \in 1..Len(scanned_zones) :
                   scanned_zones[j].gpu_allocated => j = i
            /\ Len(hist) = i
            /\ \A k \in 1..Len(calls) :
                   calls[k].op \in ZoneOps =>
                       \E j \in 1..i : calls[k].zone = zones[j]

\* C3 witness: the run returned with an allocation in the first of two
\* zones, the second zone never visited.
C3_Witness ==
    /\ pc = "returned"
    /\ Len(zones) = 2
    /\ Len(scanned_zones) = 1
    /\ scanned_zones[1].gpu_allocated

\* C4: when the run has ended over an obtained zone list and no visited
\* zone qualified, every zone was visited, the trace has one record per
\* zone, all with allocated = false, and the run ended with failure status.
C4_NoQualifyingZoneFails ==
    (/\ pc \in Terminal
     /\ ZonesListed
     /\ \A i \in 1..Len(hist) : ~Qualifies(i))
    => /\ pc = "exit1"
       /\ Len(hist) = Len(zones)
       /\ Len(scanned_zones) = Len(zones)
       /\ \A i \in 1..Len(scanned_zones) : ~scanned_zones[i].gpu_allocated

\* C4 witness: a failed run over two zones, the first without accelerator
\* headroom, the second with the accelerator but no qualifying shape.
C4_Witness ==
    /\ pc = "exit1"
    /\ Len(zones) = 2
    /\ Len(hist) = 2
    /\ hist[1].accel = "present" /\ hist[1].quota = "over"
    /\ hist[2].accel = "present" /\ hist[2].quota = "ok"
    /\ hist[2].first_ok = 0
    /\ Len(machine_types) = 1

\* C5: when the trace handed to allocate_gpus has more than one allocated
\* record, the deletes issued are exactly those of the non-first allocated
\* records, in trace order, and the list returned is the first one alone.
C5_DeletesSurplusReturnsOne ==
    LET allocated == AllocatedVms(scanned_zones)
    IN  (pc = "returned" /\ Len(allocated) > 1) =>
            /\ calls = [i \in 1..(Len(allocated) - 1) |->
                           Call("delete", allocated[i + 1].zone,
                                allocated[i + 1].instance_name, None)]
            /\ allocated_vms = <<allocated[1]>>

\* C6: no provider fault leaves the scan: a run that ends without returning
\* a success ended with the no-allocation failure, every zone visited.
C6_NoFaultEscapes ==
    (pc \in Terminal /\ pc # "returned") =>
        /\ pc = "exit1"
        /\ ZonesListed
        /\ Len(scanned_zones) = Len(zones)

\* C7: when the run has ended and create or start failed in the i-th zone,
\* not the last of the list, then the trace holds that zone's record with
\* allocated = false and the next zone was probed.
C7_ProvisioningFailureGoesOn ==
    pc \in Terminal =>
        \A i \in 1..Len(hist) :
            (/\ i < Len(zones)
             /\ (hist[i].create = "raised" \/ hist[i].start = "raised"))
            => /\ Recorded(i)
               /\ ~scanned_zones[i].gpu_allocated
               /\ Len(hist) > i

\* a probe of the accelerator check raised in the i-th zone visited
ProbeRaised(i) == hist[i].accel = "raised" \/ hist[i].quota = "raised"

\* C8: when listing accelerator types or reading the region quota raised in
\* a zone, no create is issued in that zone, the zone goes to its record,
\* the record has outcome UNAVAILABLE and allocated = false, and once the run
\* has ended the record is in the trace and the next zone, if any, was probed.
C8_ProbeFailureIsUnavailable ==
    \A i \in 1..Len(hist) :
        ProbeRaised(i) =>
            /\ CallsOf("insert", zones[i]) = {}
            /\ ~Recorded(i) => (i = Len(hist) /\ pc = "record")
            /\ Recorded(i) =>
                   /\ scanned_zones[i].gpu_reason = UNAVAILABLE
                   /\ ~scanned_zones[i].gpu_allocated
            /\ pc \in Terminal =>
                   /\ Recorded(i)
                   /\ i < Len(zones) => Len(hist) > i

\* C8 witness: the run ended, the quota read of the first zone had raised,
\* its record is UNAVAILABLE and the second zone was probed and allocated.
C8_Witness ==
    /\ pc = "returned"
    /\ Len(hist) = 2
    /\ hist[1].accel = "present"
    /\ hist[1].quota = "raised"
    /\ scanned_zones[1].gpu_reason = UNAVAILABLE
    /\ scanned_zones[2].gpu_allocated

\* C9: in a zone whose catalog answer does not list the configured
\* accelerator, the accelerator check returns unavailable, and the call
\* that follows its catalog listing is never the region quota lookup.
C9_AbsentAcceleratorSkipsQuota ==
    \A i \in 1..Len(hist) :
        hist[i].accel = "absent" =>
            /\ \A k \in CallsOf("list_accelerator_types", zones[i]) :
                   k < Len(calls) => calls[k + 1].op # "get_region"
            /\ ~Recorded(i) => ~gpu_available
            /\ Recorded(i) => ~scanned_zones[i].is_available

\* C9 witness: the accelerator check has just returned for a zone whose
\* catalog lists another accelerator only, its listing the last call.
C9_Witness ==
    /\ pc = "record"
    /\ Len(hist) = 2
    /\ hist[2].accel = "absent"
    /\ Last(calls).op = "list_accelerator_types"
    /\ ~gpu_available

\* the machine check ran in the i-th zone visited
MachineChecked(i) ==
    /\ hist[i].accel = "present"
    /\ hist[i].quota = "ok"
    /\ Len(machine_types) > 0

\* the shape the machine check has to return in the i-th zone visited
FirstQualifying(i) ==
    IF hist[i].first_ok = 0 THEN None ELSE machine_types[hist[i].first_ok]

\* C10: once is_machine_available has returned in a zone, its result is the
\* first shape of machine_types, in list order, that qualifies there (a
\* shape whose probe raised does not qualify), and none iff none qualifies.
C10_FirstQualifyingShape ==
    \A i \in 1..Len(hist) :
        MachineChecked(i) =>
            /\ Recorded(i) => scanned_zones[i].machine_type = FirstQualifying(i)
            /\ (~Recorded(i) /\ pc \in {"create", "start", "getip", "record", "crashed"})
                   => machine_type = FirstQualifying(i)

\* C10 witness: the probe of m1 raised at the existence check, m2 qualifies,
\* and is_machine_available has returned m2.
C10_Witness ==
    /\ pc = "create"
    /\ hist[zi].first_ok = 2
    /\ machine_type = ShapeAt(2)
    /\ Len(calls) >= 3
    /\ calls[Len(calls) - 2].op = "get_machine_type"
    /\ calls[Len(calls) - 2].shape = ShapeAt(1)
    /\ calls[Len(calls) - 1].op = "get_machine_type"
    /\ calls[Len(calls) - 1].shape = ShapeAt(2)
    /\ Last(calls).op = "get_region"

\* the position in zones of a zone name
ZoneIndex(zone_name) == CHOOSE i \in 1..Len(zones) : zones[i] = zone_name

\* C11: every create issued is in a zone whose visit found the accelerator
\* listed, the configured quota metric present with usage < limit and a
\* shape returned by the machine check, and the create uses that shape.
C11_CreateOnlyWhenQualified ==
    \A k \in 1..Len(calls) :
        calls[k].op = "insert" =>
            LET i == ZoneIndex(calls[k].zone)
            IN  /\ i <= Len(hist)
                /\ hist[i].accel = "present"
                /\ hist[i].quota = "ok"
                /\ hist[i].first_ok > 0
                /\ calls[k].shape = FirstQualifying(i)
                /\ calls[k].shape # None
                /\ \E j \in 1..(k - 1) :
                       /\ calls[j].op = "get_machine_type"
                       /\ calls[j].zone = calls[k].zone
                       /\ calls[j].shape = calls[k].shape

\* C11 witness: a create was issued in the second zone, after the first
\* zone's snapshot lacked the configured quota metric.
C11_Witness ==
    /\ Len(hist) = 2
    /\ hist[1].accel = "present"
    /\ hist[1].quota = "missing"
    /\ CallsOf("insert", zones[1]) = {}
    /\ CallsOf("insert", zones[2]) # {}

\* the zones whose visit has begun
Visited == 1..Len(hist)

\* C12: no zone is visited twice: each zone is probed and provisioned at
\* most once, and the trace holds exactly one record per zone whose visit
\* is over, in zone-list order, for a prefix of the zone list.
C12_EachZoneOnceInOrder ==
    ZonesListed =>
        /\ Len(scanned_zones) <= Len(zones)
        /\ \A i \in 1..Len(scanned_zones) : scanned_zones[i].zone = zones[i]
        /\ Len(hist) <= Len(zones)
        /\ Len(hist) - Len(scanned_zones) \in {0, 1}
        /\ pc \in {"zone", "scanned", "returned", "exit1"}
               => Len(hist) = Len(scanned_zones)
        /\ \A i \in 1..Len(zones) :
               /\ Cardinality(CallsOf("list_accelerator_types", zones[i]))
                      = IF i \in Visited THEN 1 ELSE 0
               /\ Cardinality(CallsOf("insert", zones[i])) <= 1
               /\ Cardinality(CallsOf("start", zones[i])) <= 1
               /\ i \notin Visited =>
                      \A op \in ZoneOps : CallsOf(op, zones[i]) = {}

\* C12 witness: two zones were visited and recorded, the first one after a
\* create that did not lead to an allocation.
C12_Witness ==
    /\ Len(zones) = 2
    /\ Len(scanned_zones) = 2
    /\ CallsOf("insert", zones[1]) # {}
    /\ scanned_zones[1].zone = zones[1]
    /\ scanned_zones[2].zone = zones[2]

\* the surplus allocations whose delete raised: their instance is still there
FailedDeletes ==
    LET surplus == VmsToDelete(AllocatedVms(scanned_zones))
    IN  {i \in 1..Len(surplus) :
            Exists(surplus[i].zone, surplus[i].instance_name)}

\* C13: when the delete of a surplus instance raises, allocate_gpus has
\* still issued the delete of every surplus instance, in order, and
\* returns a non-empty list, never the failure status.
C13_DeleteFailureIsHarmless ==
    LET surplus == VmsToDelete(AllocatedVms(scanned_zones))
    IN  (pc \in Terminal /\ FailedDeletes # {}) =>
            /\ pc = "returned"
            /\ allocated_vms # <<>>
            /\ calls = [i \in 1..Len(surplus) |->
                           Call("delete", surplus[i].zone,
                                surplus[i].instance_name, None)]

\* C13 witness: of two surplus instances the delete of the first raised and
\* that of the second went through, and allocate_gpus returned.
C13_Witness ==
    /\ pc = "returned"
    /\ Len(AllocatedVms(scanned_zones)) = 3
    /\ FailedDeletes = {1}
    /\ Len(calls) = 2

\* C14: of two successive runs with the same answers of the provider that
\* read the clock at different instants, the second derives an instance
\* name different from the first.
C14_NamesDifferAcrossRuns ==
    [][(/\ instance_name # NoName
         /\ instance_name' # NoName
         /\ now' # now) => instance_name' # instance_name]_vars

\* C15: the instance is read for its external address in a zone only after
\* the start of that zone's instance succeeded, never after a failed start.
C15_AddressReadOnlyAfterStart ==
    \A k \in 1..Len(calls) :
        calls[k].op = "get_instance" =>
            /\ hist[ZoneIndex(calls[k].zone)].start = "ok"
            /\ \E j \in 1..(k - 1) :
                   /\ calls[j].op = "start"
                   /\ calls[j].zone = calls[k].zone
                   /\ calls[j].name = calls[k].name

\* C16: in every record of the trace the outcome is SUCCESS exactly when
\* allocated is true; a zone whose create went through and whose start
\* raised has a record with allocated false and an outcome other than
\* SUCCESS.
C16_SuccessIffAllocated ==
    \A i \in 1..Len(scanned_zones) :
        /\ (scanned_zones[i].gpu_reason = SUCCESS)
              <=> (scanned_zones[i].gpu_allocated = TRUE)
        /\ (i <= Len(hist) /\ hist[i].create = "ok" /\ hist[i].start = "raised")
              => /\ scanned_zones[i].gpu_allocated = FALSE
                 /\ scanned_zones[i].gpu_reason # SUCCESS

\* C17: in a zone whose create raised, whatever the message, start is not
\* called and the record has allocated false.
C17_RaisedCreateNeverStarts ==
    \A i \in Visited :
        hist[i].create = "raised" =>
            /\ CallsOf("start", zones[i]) = {}
            /\ Recorded(i) => scanned_zones[i].gpu_allocated = FALSE

\* the tokens of a message before its first ":" token, all of them when
\* there is none
FirstSegment(msg) ==
    LET colons == {k \in 1..Len(msg) : msg[k] = ":"}
    IN  IF colons = {} THEN msg
        ELSE SubSeq(msg, 1, (CHOOSE k \in colons : \A j \in colons : k <= j) - 1)

\* C18: the record of a zone whose create raised has as outcome the part of
\* the exception message before its first colon, the whole message when
\* it has no colon.
C18_OutcomeIsFirstSegment ==
    \A i \in 1..Len(scanned_zones) :
        (i <= Len(hist) /\ hist[i].create = "raised") =>
            scanned_zones[i].gpu_reason = FirstSegment(hist[i].msg)

\* C18 witness: the create of the first zone raised with a message without
\* colon, that of the second with a message with a colon, and both zones
\* are recorded.
C18_Witness ==
    /\ Len(scanned_zones) = 2
    /\ hist[1].create = "raised"
    /\ ":" \notin Range(hist[1].msg)
    /\ hist[2].create = "raised"
    /\ ":" \in Range(hist[2].msg)
    /\ scanned_zones[2].gpu_reason # hist[2].msg
    /\ scanned_zones[2].gpu_reason # SUCCESS

\* C19: a record has allocated true only if the create of its zone went
\* through and the start after it went through, and its instance name, zone
\* and shape are those of that create.
C19_AllocatedMeansCreatedAndStarted ==
    \A i \in 1..Len(scanned_zones) :
        (i <= Len(hist) /\ scanned_zones[i].gpu_allocated = TRUE) =>
            /\ hist[i].create = "ok"
            /\ hist[i].start = "ok"
            /\ \E k \in 1..Len(calls) :
                   /\ calls[k] = Call("insert", scanned_zones[i].zone,
                                      scanned_zones[i].instance_name,
                                      scanned_zones[i].machine_type)
                   /\ \E j \in (k + 1)..Len(calls) :
                          calls[j] = Call("start", scanned_zones[i].zone,
                                          scanned_zones[i].instance_name, None)

\* the run has ended with the process exit status 1: sys.exit(1) of line 273
\* or 434, or an exception that nothing caught
FailureStatus == pc \in {"exit1", "crashed"}

====
